---- MODULE Spec2Model ----
(***************************************************************************)
(* ScopeRoot, src/mcp_fs.py: the access boundary of the file server.       *)
(*                                                                         *)
(* A string is a sequence of one-character strings, so that the glob       *)
(* matcher, the path parser and the sort work on characters as the Python  *)
(* code does.  An absolute path (pathlib.Path) is a sequence of segments,  *)
(* each segment a string.  The file system is a function from the          *)
(* absolute paths of the existing nodes to their entries.                  *)
(***************************************************************************)
EXTENDS Integers, Sequences, FiniteSets, TLC

VARIABLES
    fs,                 \* the file system: absolute path -> node
    clock,              \* the file system's clock, the source of st_mtime
    _allow_patterns,    \* mcp_fs.py:25  last valid allow patterns
    _allow_file_mtime,  \* mcp_fs.py:26  mtime recorded by the last successful load
    _last_error,        \* mcp_fs.py:27  message of the last failed load, or None
    last,               \* the last tool call: its arguments, outcome and trace
    pat_mtime,          \* ghost: the mtime the load that wrote _allow_patterns records with it
    pc,                 \* concurrent callers: the line each thread is at
    loc                 \* concurrent callers: the locals of each thread

vars == <<fs, clock, _allow_patterns, _allow_file_mtime, _last_error, last, pat_mtime,
          pc, loc>>

-----------------------------------------------------------------------------
(* Bounds of the model.                                                    *)

\* The clock stops here: at most MaxClock - 1 edits of the control file.
MaxClock == 2

\* The longest path and the longest pattern given to the matcher alone.
MaxPathLen == 5

MaxPatLen == 4

\* Python's None, as the value of _last_error.
None == "None"

-----------------------------------------------------------------------------
(* Strings.                                                                *)

\* The characters of the model, in code point order (sorted() compares them).
Alphabet ==
    <<" ", "#", "*", "-", ".", "/", "?", "A", "D", "E", "M", "R", "_",
      "a", "c", "d", "e", "g", "i", "k", "l", "m", "n", "o", "p", "r", "s",
      "t", "u", "v", "w", "x">>

Ord(c) == CHOOSE i \in 1..Len(Alphabet) : Alphabet[i] = c

RECURSIVE StrLess(_, _)
\* s < t as Python compares str: lexicographic on code points.
StrLess(s, t) ==
    IF t = <<>> THEN FALSE
    ELSE IF s = <<>> THEN TRUE
    ELSE IF Head(s) = Head(t) THEN StrLess(Tail(s), Tail(t))
    ELSE Ord(Head(s)) < Ord(Head(t))

RECURSIVE Sorted(_)
\* sorted(out) of a set of distinct strings.
Sorted(S) ==
    IF S = {} THEN <<>>
    ELSE LET m == CHOOSE x \in S : \A y \in S \ {x} : StrLess(x, y)
         IN  <<m>> \o Sorted(S \ {m})

\* s.startswith(t)
StartsWith(s, t) == Len(s) >= Len(t) /\ SubSeq(s, 1, Len(t)) = t

\* s[n:]
Drop(s, n) == SubSeq(s, n + 1, Len(s))

RECURSIVE Contains(_, _)
\* t in s
Contains(s, t) ==
    IF Len(s) < Len(t) THEN FALSE
    ELSE StartsWith(s, t) \/ Contains(Tail(s), t)

RECURSIVE Replace(_, _)
\* s.replace(t, ""), leftmost non-overlapping occurrences.
Replace(s, t) ==
    IF s = <<>> THEN <<>>
    ELSE IF StartsWith(s, t) THEN Replace(Drop(s, Len(t)), t)
    ELSE <<Head(s)>> \o Replace(Tail(s), t)

RECURSIVE RStrip(_, _)
\* s.rstrip(c)
RStrip(s, c) ==
    IF s # <<>> /\ s[Len(s)] = c THEN RStrip(SubSeq(s, 1, Len(s) - 1), c) ELSE s

RECURSIVE LStrip(_, _)
LStrip(s, c) == IF s # <<>> /\ Head(s) = c THEN LStrip(Tail(s), c) ELSE s

\* ln.strip(), the white space of the model being the blank.
Strip(s) == LStrip(RStrip(s, " "), " ")

RECURSIVE Split(_, _)
\* s.split(c)
Split(s, c) ==
    IF \A i \in 1..Len(s) : s[i] # c THEN <<s>>
    ELSE LET k == CHOOSE i \in 1..Len(s) : s[i] = c /\ \A j \in 1..(i - 1) : s[j] # c
         IN  <<SubSeq(s, 1, k - 1)>> \o Split(Drop(s, k), c)

RECURSIVE Join(_, _)
\* c.join(parts)
Join(parts, c) ==
    IF parts = <<>> THEN <<>>
    ELSE IF Len(parts) = 1 THEN parts[1]
    ELSE parts[1] \o <<c>> \o Join(Tail(parts), c)

-----------------------------------------------------------------------------
(* The pattern matcher.                                                    *)

RECURSIVE fnmatch(_, _)
\* fnmatch.fnmatch(name, pat) on POSIX: the whole name against the whole
\* pattern, '*' any run of characters ('/' included), '?' any one character.
\* ('[' does not occur in the patterns of the model.)
fnmatch(name, pat) ==
    IF pat = <<>> THEN name = <<>>
    ELSE IF Head(pat) = "*"
         THEN fnmatch(name, Tail(pat)) \/ (name # <<>> /\ fnmatch(Tail(name), pat))
    ELSE IF Head(pat) = "?"
         THEN name # <<>> /\ fnmatch(Tail(name), Tail(pat))
    ELSE name # <<>> /\ Head(name) = Head(pat) /\ fnmatch(Tail(name), Tail(pat))

\* A matcher that gives every pattern to fnmatch.
matches_pattern_fnmatch_only(path, pattern) == fnmatch(path, pattern)

\* One turn of the loop of _matches_patterns.
MatchesPattern(path, pattern) ==
    IF Contains(pattern, <<"*", "*">>)
    THEN LET pattern_prefix == RStrip(Replace(pattern, <<"*", "*">>), "/")
         IN  IF pattern_prefix = <<>> \/ StartsWith(path, pattern_prefix \o <<"/">>)
             THEN IF pattern_prefix # <<>>
                  THEN fnmatch(Drop(path, Len(pattern_prefix) + 1), <<"*">>)
                  ELSE TRUE
             ELSE FALSE
    ELSE fnmatch(path, pattern)

_matches_patterns(path, patterns) ==
    \E i \in 1..Len(patterns) : MatchesPattern(path, patterns[i])

-----------------------------------------------------------------------------
(* Paths and the file system.                                              *)

\* ROOT = Path(os.getcwd()).resolve(): the directory /w.  Its sibling /wx
\* has ROOT's string as a string prefix and is not inside ROOT.
ROOT == << <<"w">> >>

OUTSIDE == << <<"w", "x">> >>

ALLOW_NAME == <<".", "m", "c", "p", "-", "a", "l", "l", "o", "w">>

ALLOW_FILE == Append(ROOT, ALLOW_NAME)

DENY_PATTERNS ==
    <<<<".", "e", "n", "v">>,
      <<"*", "*", "/", ".", "e", "n", "v">>,
      <<"*", ".", "p", "e", "m">>,
      <<"*", "*", "/", "*", ".", "p", "e", "m">>,
      <<"*", "i", "d", "_", "r", "s", "a", "*">>,
      <<"*", "*", "/", "*", "i", "d", "_", "r", "s", "a", "*">>,
      <<".", "g", "i", "t">>,
      <<".", "g", "i", "t", "/", "*", "*">>,
      <<"*", "*", "/", ".", "g", "i", "t", "/", "*", "*">>,
      <<".", "v", "e", "n", "v">>,
      <<".", "v", "e", "n", "v", "/", "*", "*">>,
      <<"*", "*", "/", ".", "v", "e", "n", "v", "/", "*", "*">>>>

DotDot == <<".", ".">>

\* Path(path): the separators split the string, empty and "." segments drop.
PathOf(s) ==
    [abs   |-> s # <<>> /\ Head(s) = "/",
     parts |-> SelectSeq(Split(s, "/"), LAMBDA x : x # <<>> /\ x # <<".">>)]

\* ROOT / p: an absolute right operand replaces the left one.
JoinRoot(p) == IF p.abs THEN p.parts ELSE ROOT \o p.parts

\* Path.is_absolute() of a mutant that takes every path as relative.
is_absolute_never(p) == FALSE

\* Path.is_absolute()
is_absolute(p) == p.abs

Parent(abs) == IF abs = <<>> THEN <<>> ELSE SubSeq(abs, 1, Len(abs) - 1)

\* p.name
NameOf(abs) == IF abs = <<>> THEN <<>> ELSE abs[Len(abs)]

\* p.as_posix() of an absolute path
AbsPosix(abs) == <<"/">> \o Join(abs, "/")

Exists(fsys, abs) == abs \in DOMAIN fsys

IsLink(fsys, abs) == Exists(fsys, abs) /\ fsys[abs].kind = "link"

RECURSIVE RealPath(_, _, _)
\* Path.resolve() (os.path.realpath, strict=False): walk the segments from the
\* left, ".." steps to the parent of the resolved part, a symbolic link is
\* replaced by its (absolute) target.
RealPath(fsys, cur, rest) ==
    IF rest = <<>> THEN cur
    ELSE IF Head(rest) = DotDot THEN RealPath(fsys, Parent(cur), Tail(rest))
    ELSE LET new == Append(cur, Head(rest))
         IN  IF IsLink(fsys, new)
             THEN RealPath(fsys, <<>>, fsys[new].target \o Tail(rest))
             ELSE RealPath(fsys, new, Tail(rest))

\* (ROOT / p).resolve()
resolve(fsys, abs) == RealPath(fsys, <<>>, abs)

\* relative_to on the strings: /wx/s "starts with" /w.
is_relative_to_text(abs, base) == StartsWith(AbsPosix(abs), AbsPosix(base))

\* resolved.relative_to(ROOT) does not raise: base is a prefix of abs,
\* segment by segment.
is_relative_to(abs, base) == StartsWith(abs, base)

\* resolved.relative_to(ROOT).as_posix()
RelPosix(abs) ==
    IF Len(abs) = Len(ROOT) THEN <<".">> ELSE Join(Drop(abs, Len(ROOT)), "/")

\* Path.is_file(): the final symbolic link is followed.
is_file(fsys, abs) ==
    LET t == resolve(fsys, abs) IN Exists(fsys, t) /\ fsys[t].kind = "file"

\* An existence test that always holds.
exists_always(fsys, abs) == TRUE

\* Path.exists()
exists(fsys, abs) == Exists(fsys, resolve(fsys, abs))

\* Node entries.
Dir == [kind |-> "dir", text |-> <<>>, fault |-> "none", mtime |-> 0, target |-> <<>>]

File(text) == [kind |-> "file", text |-> text, fault |-> "none", mtime |-> 0, target |-> <<>>]

Link(target) == [kind |-> "link", text |-> <<>>, fault |-> "none", mtime |-> 0, target |-> target]

\* The control file: its lines, whether reading it fails ("read": an OSError,
\* "decode": bytes that are not UTF-8) and its modification time.
ControlFile(text, fault, mtime) ==
    [kind |-> "file", text |-> text, fault |-> fault, mtime |-> mtime, target |-> <<>>]

-----------------------------------------------------------------------------
(* The inputs of the model.                                                *)

\* The path strings a caller sends: a file, secrets at the root and below
\* it, the links, a climb out of ROOT, a detour inside it, an absolute path,
\* a file to create, the control file and its name elsewhere, directories.
ReadRequests ==
    {<<"a">>,
     <<".", "e", "n", "v">>,
     <<"d", "/", ".", "e", "n", "v">>,
     <<"l">>,
     <<"o">>,
     <<".", ".", "/", "w", "x", "/", "s">>,
     <<"d", "/", ".", ".", "/", "a">>,
     <<"/", "w", "/", "a">>,
     <<"e", "/", "n">>,
     <<".", "m", "c", "p", "-", "a", "l", "l", "o", "w">>,
     <<"d", "/", ".", "m", "c", "p", "-", "a", "l", "l", "o", "w">>,
     <<".">>}

WriteRequests ==
    {<<"a">>,
     <<".", "e", "n", "v">>,
     <<"l">>,
     <<"o">>,
     <<".", ".", "/", "w", "x", "/", "s">>,
     <<"/", "w", "/", "a">>,
     <<"e", "/", "n">>,
     <<".", "m", "c", "p", "-", "a", "l", "l", "o", "w">>,
     <<"d", "/", ".", "m", "c", "p", "-", "a", "l", "l", "o", "w">>,
     <<".">>}

ListPrefixes ==
    {<<".">>,
     <<"d">>,
     <<"l">>,
     <<"o">>,
     <<"a">>,
     <<"/", "w", "/", "a">>}

\* The contents of the control file, as lines: everything, and the file a
\* alone (with a comment, blanks around the pattern and a blank line).
Contents ==
    {<< <<"*", "*">> >>,
     << <<"#", " ", "a">>, <<" ", "a", " ">>, <<>> >>}

\* What the control file holds: readable lines, or a file that cannot be
\* read, or bytes that cannot be decoded.
ControlStates ==
    {<<t, "none">> : t \in Contents} \cup {<< <<>>, "read">>, << <<>>, "decode">>}

\* The content of the files of the tree, and the content a caller writes.
Original == << <<"o">> >>

NewText == << <<"x">> >>

\* max_bytes: the default of read_text.
DefaultMaxBytes == 200000

MaxBytes == {DefaultMaxBytes}

\* The tree: ROOT with a file, a secret, a directory with a file and a
\* secret, a link to the secret and a link out of ROOT; beside ROOT the
\* directory /wx with a file.
Tree ==
    LET w == ROOT[1]
        x == OUTSIDE[1]
    IN  (<<w>> :> Dir)
        @@ (<<w, <<"a">>>> :> File(Original))
        @@ (<<w, <<".", "e", "n", "v">>>> :> File(Original))
        @@ (<<w, <<"d">>>> :> Dir)
        @@ (<<w, <<"d">>, <<"a">>>> :> File(Original))
        @@ (<<w, <<"d">>, <<".", "e", "n", "v">>>> :> File(Original))
        @@ (<<w, <<"l">>>> :> Link(<<w, <<".", "e", "n", "v">>>>))
        @@ (<<w, <<"o">>>> :> Link(<<x, <<"s">>>>))
        @@ (<<x>> :> Dir)
        @@ (<<x, <<"s">>>> :> File(Original))

\* The lines of the control file, stripped, without the blank lines and the
\* comments.
ParseLines(text) ==
    SelectSeq([i \in 1..Len(text) |-> Strip(text[i])],
              LAMBDA ln : ln # <<>> /\ Head(ln) # "#")

-----------------------------------------------------------------------------
(* The pattern store.                                                      *)

\* The three module globals, as one value.
Cache == [patterns |-> _allow_patterns, mtime |-> _allow_file_mtime, error |-> _last_error]

\* The message _load_allow_patterns records for a failed read.
ErrorMsg(fault) ==
    IF fault = "decode" THEN "Error reading .mcp-allow: 'utf-8' codec can't decode"
    ELSE "Error reading .mcp-allow: cannot read"

\* What ALLOW_FILE.read_text(encoding="utf-8") raises, "none" when it returns.
ReadFault(node) == IF node.kind # "file" THEN "read" ELSE node.fault

\* Line 49 without the comparison of the modification times.
cache_hit_any_mtime(current_mtime, c) == c.patterns # <<>>

\* Line 49: the cache is current.
CacheHit(current_mtime, c) == current_mtime = c.mtime /\ c.patterns # <<>>

\* An except branch that records nothing.
load_failed_silently(fault, c) ==
    [ret |-> c.patterns, cache |-> c, ops |-> <<"exists", "stat", "read_text">>,
     read |-> TRUE]

\* An except branch that drops the cached list.
load_failed_forgetting(fault, c) ==
    [ret   |-> <<>>,
     cache |-> [c EXCEPT !.patterns = <<>>, !.error = ErrorMsg(fault)],
     ops   |-> <<"exists", "stat", "read_text">>,
     read  |-> TRUE]

\* Lines 70-75: the error is recorded, the cached list is returned.
LoadFailed(fault, c) ==
    [ret   |-> c.patterns,
     cache |-> [c EXCEPT !.error = ErrorMsg(fault)],
     ops   |-> <<"exists", "stat", "read_text">>,
     read  |-> TRUE]

\* A successful load that does not append ".mcp-allow".
load_succeeded_unappended(lines, current_mtime) ==
    [ret   |-> lines,
     cache |-> [patterns |-> lines, mtime |-> current_mtime, error |-> None],
     ops   |-> <<"exists", "stat", "read_text">>,
     read  |-> TRUE]

\* Lines 62-68: ".mcp-allow" is appended, the three globals are replaced.
LoadSucceeded(lines, current_mtime) ==
    [ret   |-> lines \o <<ALLOW_NAME>>,
     cache |-> [patterns |-> lines \o <<ALLOW_NAME>>, mtime |-> current_mtime,
                error |-> None],
     ops   |-> <<"exists", "stat", "read_text">>,
     read  |-> TRUE]

\* _load_allow_patterns(): the list it returns, the globals after the call,
\* the file system calls it makes and whether it read the control file.
_load_allow_patterns(fsys, c) ==
    IF ~Exists(fsys, ALLOW_FILE)
    THEN [ret |-> <<>>, cache |-> c, ops |-> <<"exists">>, read |-> FALSE]
    ELSE IF CacheHit(fsys[ALLOW_FILE].mtime, c)
    THEN [ret |-> c.patterns, cache |-> c, ops |-> <<"exists", "stat">>, read |-> FALSE]
    ELSE IF ReadFault(fsys[ALLOW_FILE]) # "none"
    THEN LoadFailed(ReadFault(fsys[ALLOW_FILE]), c)
    ELSE LoadSucceeded(ParseLines(fsys[ALLOW_FILE].text), fsys[ALLOW_FILE].mtime)

-----------------------------------------------------------------------------
(* The decision.                                                           *)

\* What _safe_rel leaves: err is "ok" or the reason it raises with, resolved
\* the path it returns, cache the globals after it, ops its file system
\* calls in order, loaded whether it called _load_allow_patterns, loads the
\* number of calls of _load_allow_patterns, read whether the control file
\* was read, allow the list the store returned.
Rejected(err, c, ops) ==
    [err |-> err, resolved |-> <<>>, rel |-> <<>>, cache |-> c, ops |-> ops,
     loaded |-> FALSE, loads |-> 0, read |-> FALSE, allow |-> <<>>]

Accepted(resolved, rel_posix, c, ops) ==
    [err |-> "ok", resolved |-> resolved, rel |-> rel_posix, cache |-> c, ops |-> ops,
     loaded |-> FALSE, loads |-> 0, read |-> FALSE, allow |-> <<>>]

\* Lines 124-129: the load, then the error state, then the allow list.
SafeRelFile(resolved, rel_posix, fsys, c, ops) ==
    LET ld   == _load_allow_patterns(fsys, c)
        base == [err |-> "ok", resolved |-> resolved, rel |-> rel_posix,
                 cache |-> ld.cache, ops |-> ops \o ld.ops, loaded |-> TRUE, loads |-> 1,
                 read |-> ld.read, allow |-> ld.ret]
    IN  IF ld.cache.error # None THEN [base EXCEPT !.err = "ConfigError"]
        ELSE IF ~_matches_patterns(rel_posix, ld.ret)
        THEN [base EXCEPT !.err = "NotWhitelisted"]
        ELSE base

\* _safe_rel(path)
_safe_rel(path, fsys, c) ==
    LET p == PathOf(path)
    IN  IF is_absolute(p) THEN Rejected("InvalidPath", c, <<>>)
        ELSE LET resolved == resolve(fsys, JoinRoot(p))
             IN  IF ~is_relative_to(resolved, ROOT)
                 THEN Rejected("Escape", c, <<"resolve">>)
                 ELSE LET rel_posix == RelPosix(resolved)
                      IN  IF _matches_patterns(rel_posix, DENY_PATTERNS)
                          THEN Rejected("Denied", c, <<"resolve">>)
                          ELSE IF is_file(fsys, resolved)
                          THEN SafeRelFile(resolved, rel_posix, fsys, c,
                                           <<"resolve", "is_file">>)
                          ELSE Accepted(resolved, rel_posix, c, <<"resolve", "is_file">>)

-----------------------------------------------------------------------------
(* The tools.                                                              *)

\* len(data) of a file's bytes: its lines, each with its line end.
RECURSIVE DataLen(_)
DataLen(text) == IF text = <<>> THEN 0 ELSE Len(Head(text)) + 1 + DataLen(Tail(text))

\* data.decode("utf-8", errors="replace") of bytes that are not UTF-8.
ReplacedText == << <<"?">> >>

\* The record a call leaves in last: the arguments, err the outcome of the
\* call, decision the outcome of its _safe_rel ("bypass" when it made none),
\* out what it returns, and what _safe_rel and the store did.
Call(op, path, arg, err, decision, out, sr) ==
    [op |-> op, path |-> path, arg |-> arg, err |-> err, decision |-> decision,
     out |-> out, rel |-> sr.rel, resolved |-> sr.resolved, ops |-> sr.ops,
     loaded |-> sr.loaded, loads |-> sr.loads,
     read |-> sr.read, allow |-> sr.allow, error |-> sr.cache.error]

\* base.rglob("*"): every node below base; the directories behind a symbolic
\* link are not entered, the link itself is yielded.
RGlob(fsys, base) ==
    IF Exists(fsys, base) /\ fsys[base].kind = "dir"
    THEN {q \in DOMAIN fsys : Len(q) > Len(base) /\ StartsWith(q, base)}
    ELSE {}

\* list_files(prefix): the decision on the prefix, a load of its own (line
\* 140), the filter of line 146 on each file below the prefix, the sort.
\* sr is what the decision left, listed what the whole call left.
list_files(prefix, fsys, c) ==
    LET sr == _safe_rel(prefix, fsys, c)
    IN  IF sr.err # "ok" THEN [sr |-> sr, err |-> sr.err, out |-> <<>>, listed |-> sr]
        ELSE LET ld  == _load_allow_patterns(fsys, sr.cache)
                 out == {RelPosix(q) : q \in
                           {q \in RGlob(fsys, sr.resolved) :
                              /\ is_file(fsys, q)
                              /\ ~_matches_patterns(RelPosix(q), DENY_PATTERNS)
                              /\ _matches_patterns(RelPosix(q), ld.ret)}}
             IN  [sr     |-> sr,
                  err    |-> "ok",
                  out    |-> Sorted(out),
                  listed |-> [sr EXCEPT !.cache = ld.cache, !.loads = sr.loads + 1,
                                        !.read = sr.read \/ ld.read, !.allow = ld.ret]]

\* p.read_bytes() and the rest of read_text (lines 160-163).
ReadBytes(fsys, p, max_bytes) ==
    LET t == resolve(fsys, p)
    IN  IF ~Exists(fsys, t) THEN [err |-> "NotFound", out |-> <<>>]
        ELSE IF fsys[t].kind # "file" \/ fsys[t].fault = "read"
        THEN [err |-> "IOError", out |-> <<>>]
        ELSE IF DataLen(fsys[t].text) > max_bytes THEN [err |-> "TooLarge", out |-> <<>>]
        ELSE IF fsys[t].fault = "decode" THEN [err |-> "ok", out |-> ReplacedText]
        ELSE [err |-> "ok", out |-> fsys[t].text]

\* read_text(path, max_bytes): a path whose resolved name is .mcp-allow is
\* served from ROOT / ".mcp-allow" without a decision.
read_text(path, max_bytes, fsys, c) ==
    LET p == resolve(fsys, JoinRoot(PathOf(path)))
    IN  IF NameOf(p) = ALLOW_NAME
        THEN LET rb == ReadBytes(fsys, ALLOW_FILE, max_bytes)
             IN  [sr  |-> Accepted(ALLOW_FILE, ALLOW_NAME, c, <<>>),
                  decision |-> "bypass", err |-> rb.err, out |-> rb.out]
        ELSE LET sr == _safe_rel(path, fsys, c)
             IN  IF sr.err # "ok"
                 THEN [sr |-> sr, decision |-> sr.err, err |-> sr.err, out |-> <<>>]
                 ELSE LET rb == ReadBytes(fsys, sr.resolved, max_bytes)
                      IN  [sr |-> sr, decision |-> "ok", err |-> rb.err, out |-> rb.out]

\* The ancestors of p that p.parent.mkdir(parents=True) has to look at.
Ancestors(p) == {SubSeq(p, 1, n) : n \in 1..(Len(p) - 1)}

\* The node p.write_text(content) leaves at p.
Written(p, content, now) ==
    IF p = ALLOW_FILE THEN ControlFile(content, "none", now) ELSE File(content)

\* write_text(path, content, create): the outcome and the file system after it.
write_text(path, content, create, fsys, c, now) ==
    LET sr == _safe_rel(path, fsys, c)
        p  == sr.resolved
    IN  IF sr.err # "ok" THEN [sr |-> sr, err |-> sr.err, fs |-> fsys]
        ELSE IF NameOf(p) = ALLOW_NAME \/ AbsPosix(p) = ALLOW_NAME
        THEN [sr |-> sr, err |-> "ReadOnlyConfig", fs |-> fsys]
        ELSE IF ~exists(fsys, p) /\ ~create THEN [sr |-> sr, err |-> "NotFound", fs |-> fsys]
        ELSE IF \E q \in Ancestors(p) : Exists(fsys, q) /\ fsys[q].kind # "dir"
        THEN [sr |-> sr, err |-> "IOError", fs |-> fsys]
        ELSE IF Exists(fsys, p) /\ fsys[p].kind # "file"
        THEN [sr |-> sr, err |-> "IOError", fs |-> fsys]
        ELSE [sr  |-> sr, err |-> "ok",
              fs  |-> [q \in DOMAIN fsys \cup Ancestors(p) \cup {p} |->
                         IF q = p THEN Written(p, content, now)
                         ELSE IF q \in DOMAIN fsys THEN fsys[q] ELSE Dir]]

-----------------------------------------------------------------------------
(* The server, one call at a time.                                         *)

NoCall ==
    [op |-> "none", path |-> <<>>, arg |-> 0, err |-> "ok", decision |-> "none",
     out |-> <<>>, rel |-> <<>>, resolved |-> <<>>, ops |-> <<>>, loaded |-> FALSE,
     loads |-> 0, read |-> FALSE, allow |-> <<>>, error |-> None]

Init ==
    /\ \/ fs = Tree
       \/ \E cs \in ControlStates : fs = Tree @@ (ALLOW_FILE :> ControlFile(cs[1], cs[2], 1))
    /\ clock = 1
    /\ _allow_patterns = <<>>
    /\ _allow_file_mtime = 0
    /\ _last_error = None
    /\ last = NoCall
    /\ pat_mtime = 0
    /\ pc = <<>>
    /\ loc = <<>>

SetCache(c) ==
    /\ _allow_patterns' = c.patterns
    /\ _allow_file_mtime' = c.mtime
    /\ _last_error' = c.error
    /\ pat_mtime' = c.mtime

ListFiles ==
    \E prefix \in ListPrefixes :
        \E r \in {list_files(prefix, fs, Cache)} :
            /\ SetCache(r.listed.cache)
            /\ last' = Call("list", prefix, 0, r.err, r.sr.err, r.out, r.listed)
            /\ UNCHANGED <<fs, clock, pc, loc>>

ReadText ==
    \E path \in ReadRequests, max_bytes \in MaxBytes :
        \E r \in {read_text(path, max_bytes, fs, Cache)} :
            /\ SetCache(r.sr.cache)
            /\ last' = Call("read", path, max_bytes, r.err, r.decision, r.out, r.sr)
            /\ UNCHANGED <<fs, clock, pc, loc>>

WriteText ==
    \E path \in WriteRequests, create \in BOOLEAN :
        \E r \in {write_text(path, NewText, create, fs, Cache, clock)} :
            /\ SetCache(r.sr.cache)
            /\ fs' = r.fs
            /\ last' = Call("write", path, IF create THEN 1 ELSE 0, r.err, r.sr.err, <<>>, r.sr)
            /\ UNCHANGED <<clock, pc, loc>>

\* The user edits the control file: new content, a later mtime.
EditControl ==
    \E cs \in ControlStates :
        /\ clock < MaxClock
        /\ Exists(fs, ALLOW_FILE) => fs[ALLOW_FILE].kind = "file"
        /\ clock' = clock + 1
        /\ fs' = [q \in DOMAIN fs \cup {ALLOW_FILE} |->
                    IF q = ALLOW_FILE THEN ControlFile(cs[1], cs[2], clock + 1) ELSE fs[q]]
        /\ last' = [NoCall EXCEPT !.op = "edit"]
        /\ UNCHANGED <<_allow_patterns, _allow_file_mtime, _last_error, pat_mtime, pc, loc>>

\* The user removes the control file.
RemoveControl ==
    /\ Exists(fs, ALLOW_FILE)
    /\ fs' = [q \in DOMAIN fs \ {ALLOW_FILE} |-> fs[q]]
    /\ last' = [NoCall EXCEPT !.op = "remove"]
    /\ UNCHANGED <<clock, _allow_patterns, _allow_file_mtime, _last_error, pat_mtime, pc, loc>>

Next == ListFiles \/ ReadText \/ WriteText \/ EditControl \/ RemoveControl

Spec == Init /\ [][Next]_vars

-----------------------------------------------------------------------------
(* Concurrent callers.  Each thread runs the file branch of _safe_rel      *)
(* (lines 124-129) for the file a, one statement of _load_allow_patterns   *)
(* at a time; the module globals are read and written without a lock.      *)

Threads == {"t1", "t2"}

\* The root-relative path the threads ask for: a file of the tree.
Target == <<"a">>

Locals ==
    [current_mtime |-> 0, lines |-> <<>>, fault |-> "none", ret |-> <<>>,
     own |-> "none", seen_mtime |-> 0, seen_error |-> None, outcome |-> "none",
     torn |-> FALSE]

InitConc ==
    /\ \/ fs = Tree
       \/ \E cs \in ControlStates : fs = Tree @@ (ALLOW_FILE :> ControlFile(cs[1], cs[2], 1))
    /\ clock = 1
    /\ _allow_patterns = <<>>
    /\ _allow_file_mtime = 0
    /\ _last_error = None
    /\ last = NoCall
    /\ pat_mtime = 0
    /\ pc = [t \in Threads |-> "idle"]
    /\ loc = [t \in Threads |-> Locals]

Goto(t, line) == pc' = [pc EXCEPT ![t] = line]

Globals == <<_allow_patterns, _allow_file_mtime, _last_error, pat_mtime>>

\* Line 125: resolved.is_file() holds, _load_allow_patterns() is called.
Enter ==
    \E t \in Threads :
        /\ pc[t] = "idle"
        /\ is_file(fs, Append(ROOT, Target))
        /\ Goto(t, "L43")
        /\ loc' = [loc EXCEPT ![t] = Locals]
        /\ UNCHANGED <<fs, clock, last, Globals>>

\* Line 43: if not ALLOW_FILE.exists(): return []
L43 ==
    \E t \in Threads :
        /\ pc[t] = "L43"
        /\ IF Exists(fs, ALLOW_FILE)
           THEN Goto(t, "L48") /\ UNCHANGED loc
           ELSE /\ Goto(t, "L126")
                /\ loc' = [loc EXCEPT ![t].ret = <<>>, ![t].own = "absent"]
        /\ UNCHANGED <<fs, clock, last, Globals>>

\* Line 48: current_mtime = ALLOW_FILE.stat().st_mtime
L48 ==
    \E t \in Threads :
        /\ pc[t] = "L48"
        /\ IF Exists(fs, ALLOW_FILE)
           THEN /\ Goto(t, "L49")
                /\ loc' = [loc EXCEPT ![t].current_mtime = fs[ALLOW_FILE].mtime]
           ELSE /\ Goto(t, "L73")
                /\ loc' = [loc EXCEPT ![t].fault = "read"]
        /\ UNCHANGED <<fs, clock, last, Globals>>

\* Line 49, left operand: current_mtime == _allow_file_mtime
L49 ==
    \E t \in Threads :
        /\ pc[t] = "L49"
        /\ loc' = [loc EXCEPT ![t].seen_mtime = _allow_file_mtime]
        /\ IF loc[t].current_mtime = _allow_file_mtime
           THEN Goto(t, "L49b")
           ELSE Goto(t, "L53")
        /\ UNCHANGED <<fs, clock, last, Globals>>

\* Line 49, right operand: and _allow_patterns.  The list read here is paired
\* by the caller with the mtime read one step before.
L49b ==
    \E t \in Threads :
        /\ pc[t] = "L49b"
        /\ loc' = [loc EXCEPT ![t].torn = (pat_mtime # loc[t].seen_mtime)]
        /\ IF _allow_patterns # <<>>
           THEN Goto(t, "L50")
           ELSE Goto(t, "L53")
        /\ UNCHANGED <<fs, clock, last, Globals>>

\* Line 50: return _allow_patterns
L50 ==
    \E t \in Threads :
        /\ pc[t] = "L50"
        /\ loc' = [loc EXCEPT ![t].ret = _allow_patterns, ![t].own = "hit"]
        /\ Goto(t, "L126")
        /\ UNCHANGED <<fs, clock, last, Globals>>

\* Lines 53-64: read, strip, filter, append ".mcp-allow"; or raise.
L53 ==
    \E t \in Threads :
        /\ pc[t] = "L53"
        /\ IF ~Exists(fs, ALLOW_FILE)
           THEN Goto(t, "L73") /\ loc' = [loc EXCEPT ![t].fault = "read"]
           ELSE IF ReadFault(fs[ALLOW_FILE]) # "none"
           THEN Goto(t, "L73") /\ loc' = [loc EXCEPT ![t].fault = ReadFault(fs[ALLOW_FILE])]
           ELSE /\ Goto(t, "L65")
                /\ loc' = [loc EXCEPT ![t].lines =
                              ParseLines(fs[ALLOW_FILE].text) \o <<ALLOW_NAME>>]
        /\ UNCHANGED <<fs, clock, last, Globals>>

\* Line 65: _allow_patterns = lines
L65 ==
    \E t \in Threads :
        /\ pc[t] = "L65"
        /\ _allow_patterns' = loc[t].lines
        /\ pat_mtime' = loc[t].current_mtime
        /\ Goto(t, "L66")
        /\ UNCHANGED <<fs, clock, last, _allow_file_mtime, _last_error, loc>>

\* Line 66: _allow_file_mtime = current_mtime
L66 ==
    \E t \in Threads :
        /\ pc[t] = "L66"
        /\ _allow_file_mtime' = loc[t].current_mtime
        /\ Goto(t, "L67")
        /\ UNCHANGED <<fs, clock, last, _allow_patterns, _last_error, pat_mtime, loc>>

\* Lines 67-68: _last_error = None; return lines
L67 ==
    \E t \in Threads :
        /\ pc[t] = "L67"
        /\ _last_error' = None
        /\ loc' = [loc EXCEPT ![t].ret = loc[t].lines, ![t].own = "ok"]
        /\ Goto(t, "L126")
        /\ UNCHANGED <<fs, clock, last, _allow_patterns, _allow_file_mtime, pat_mtime>>

\* Lines 70-73: except Exception: _last_error = error_msg
L73 ==
    \E t \in Threads :
        /\ pc[t] = "L73"
        /\ _last_error' = ErrorMsg(loc[t].fault)
        /\ Goto(t, "L75")
        /\ UNCHANGED <<fs, clock, last, _allow_patterns, _allow_file_mtime, pat_mtime, loc>>

\* Line 75: return _allow_patterns
L75 ==
    \E t \in Threads :
        /\ pc[t] = "L75"
        /\ loc' = [loc EXCEPT ![t].ret = _allow_patterns, ![t].own = "failed"]
        /\ Goto(t, "L126")
        /\ UNCHANGED <<fs, clock, last, Globals>>

\* Lines 126-127: if _last_error: raise ValueError(_last_error)
L126 ==
    \E t \in Threads :
        /\ pc[t] = "L126"
        /\ IF _last_error # None
           THEN /\ Goto(t, "idle")
                /\ loc' = [loc EXCEPT ![t].seen_error = _last_error,
                                      ![t].outcome = "ConfigError"]
           ELSE /\ Goto(t, "L128")
                /\ loc' = [loc EXCEPT ![t].seen_error = None]
        /\ UNCHANGED <<fs, clock, last, Globals>>

\* Lines 128-131: the allow list decides.
L128 ==
    \E t \in Threads :
        /\ pc[t] = "L128"
        /\ loc' = [loc EXCEPT ![t].outcome =
                      IF _matches_patterns(Target, loc[t].ret) THEN "ok"
                      ELSE "NotWhitelisted"]
        /\ Goto(t, "idle")
        /\ UNCHANGED <<fs, clock, last, Globals>>

NextConc ==
    \/ Enter \/ L43 \/ L48 \/ L49 \/ L49b \/ L50 \/ L53 \/ L65 \/ L66 \/ L67
    \/ L73 \/ L75 \/ L126 \/ L128
    \/ EditControl \/ RemoveControl

SpecConc == InitConc /\ [][NextConc]_vars

-----------------------------------------------------------------------------
(* The end-to-end scenario: the same server in a workspace with README.md, *)
(* docs/guide.md, .env and a control file listing README.md and docs/**.   *)

README == <<"R", "E", "A", "D", "M", "E", ".", "m", "d">>

GUIDE == <<"g", "u", "i", "d", "e", ".", "m", "d">>

DOCS == <<"d", "o", "c", "s">>

ScenarioLines == <<README, DOCS \o <<"/", "*", "*">> >>

Scenario ==
    LET w == ROOT[1]
    IN  (<<w>> :> Dir)
        @@ (<<w, README>> :> File(Original))
        @@ (<<w, DOCS>> :> Dir)
        @@ (<<w, DOCS, GUIDE>> :> File(Original))
        @@ (<<w, <<".", "e", "n", "v">>>> :> File(Original))
        @@ (ALLOW_FILE :> ControlFile(ScenarioLines, "none", 1))

InitScenario ==
    /\ fs = Scenario
    /\ clock = 1
    /\ _allow_patterns = <<>>
    /\ _allow_file_mtime = 0
    /\ _last_error = None
    /\ last = NoCall
    /\ pat_mtime = 0
    /\ pc = <<>>
    /\ loc = <<>>

\* The calls of the scenario: the listed files, the secret, the control
\* file, a file to create under docs.
ScenarioPaths ==
    {README,
     DOCS \o <<"/">> \o GUIDE,
     <<".", "e", "n", "v">>,
     ALLOW_NAME,
     DOCS \o <<"/", "n">>}

ScenarioPrefixes == {<<".">>, DOCS}

ScenarioList ==
    \E prefix \in ScenarioPrefixes :
        \E r \in {list_files(prefix, fs, Cache)} :
            /\ SetCache(r.listed.cache)
            /\ last' = Call("list", prefix, 0, r.err, r.sr.err, r.out, r.listed)
            /\ UNCHANGED <<fs, clock, pc, loc>>

ScenarioRead ==
    \E path \in ScenarioPaths, max_bytes \in MaxBytes :
        \E r \in {read_text(path, max_bytes, fs, Cache)} :
            /\ SetCache(r.sr.cache)
            /\ last' = Call("read", path, max_bytes, r.err, r.decision, r.out, r.sr)
            /\ UNCHANGED <<fs, clock, pc, loc>>

ScenarioWrite ==
    \E path \in ScenarioPaths, create \in BOOLEAN :
        \E r \in {write_text(path, NewText, create, fs, Cache, clock)} :
            /\ SetCache(r.sr.cache)
            /\ fs' = r.fs
            /\ last' = Call("write", path, IF create THEN 1 ELSE 0, r.err, r.sr.err, <<>>, r.sr)
            /\ UNCHANGED <<clock, pc, loc>>

NextScenario ==
    ScenarioList \/ ScenarioRead \/ ScenarioWrite \/ EditControl \/ RemoveControl

SpecScenario == InitScenario /\ [][NextScenario]_vars

-----------------------------------------------------------------------------
(* The matcher alone: _matches_patterns(path, [pattern]) for every path    *)
(* and every pattern up to the bounds.                                     *)

\* The sequences over S of length 0..n.
Seqs(S, n) == UNION {[1..k -> S] : k \in 0..n}

\* rel.as_posix(): segments of a joined by "/", none empty; "." for ROOT.
IsPosix(s) ==
    /\ s # <<>>
    /\ Head(s) # "/"
    /\ s[Len(s)] # "/"
    /\ \A i \in 1..(Len(s) - 1) : ~(s[i] = "/" /\ s[i + 1] = "/")

MatchPaths == {s \in Seqs({"a", "/"}, MaxPathLen) : IsPosix(s)} \cup {<<".">>}

\* A line of the control file after the strip and the filter: not empty.
MatchPatterns == Seqs({"a", "/", "*", "?"}, MaxPatLen) \ {<<>>}

InitMatch ==
    /\ fs = Tree
    /\ clock = 1
    /\ _allow_patterns = <<>>
    /\ _allow_file_mtime = 0
    /\ _last_error = None
    /\ \E path \in MatchPaths, pattern \in MatchPatterns :
           last = [NoCall EXCEPT !.op = "ask", !.path = path, !.allow = <<pattern>>]
    /\ pat_mtime = 0
    /\ pc = <<>>
    /\ loc = <<>>

\* _matches_patterns(path, [pattern]); out is what it returns.
Match ==
    /\ last.op = "ask"
    /\ \E r \in {_matches_patterns(last.path, last.allow)} :
           last' = [last EXCEPT !.op = "match", !.out = r]
    /\ UNCHANGED <<fs, clock, _allow_patterns, _allow_file_mtime, _last_error,
                   pat_mtime, pc, loc>>

SpecMatch == InitMatch /\ [][Match]_vars

-----------------------------------------------------------------------------
(* The properties.  They are stated on last, the record of the call that   *)
(* was made last, and on the file system and the globals it left.          *)

IsCall(r) == r.op \in {"list", "read", "write"}

\* The call went through _safe_rel.
Decided(r) == IsCall(r) /\ r.decision # "bypass"

IsAbsolute(path) == path # <<>> /\ Head(path) = "/"

\* The canonical form of a request: ROOT joined with it, "." and ".."
\* resolved, the symbolic links followed.
Canonical(path) == RealPath(fs, <<>>, JoinRoot(PathOf(path)))

\* abs is ROOT or below it, segment by segment.
Inside(abs) ==
    /\ Len(abs) >= Len(ROOT)
    /\ \A i \in 1..Len(ROOT) : abs[i] = ROOT[i]

\* The canonical form of the request is under ROOT and a Hard-Deny pattern
\* matches its root-relative form.
HardDenied(path) ==
    /\ Inside(Canonical(path))
    /\ _matches_patterns(RelPosix(Canonical(path)), DENY_PATTERNS)

\* C1, the decision: a request whose canonical root-relative form matches a
\* Hard-Deny pattern fails with Denied, whatever the allow list holds and
\* whatever the call is, and the allow list has not been loaded for it.
C1_DeniedBeforeAllow ==
    (Decided(last) /\ ~IsAbsolute(last.path) /\ HardDenied(last.path))
        => (last.decision = "Denied" /\ last.err = "Denied" /\ last.loads = 0)

\* C1: a request whose canonical root-relative form matches a Hard-Deny
\* pattern fails with Denied before the allow list is consulted, and
\* list_files returns no path whose canonical root-relative form matches a
\* Hard-Deny pattern.
C1_HardDenyPrecedes ==
    /\ C1_DeniedBeforeAllow
    /\ (last.op = "list" /\ last.err = "ok")
           => \A i \in 1..Len(last.out) : ~HardDenied(last.out[i])

\* C2: a relative request whose canonical form lies outside ROOT fails with
\* Escape, also when only a symbolic link inside ROOT leads out; every path
\* _safe_rel returns is ROOT or below it, segment by segment.
C2_EscapeRejected ==
    /\ (Decided(last) /\ ~IsAbsolute(last.path) /\ ~Inside(Canonical(last.path)))
           => (last.decision = "Escape" /\ last.err = "Escape")
    /\ (Decided(last) /\ last.decision = "ok") => Inside(last.resolved)

\* A request through the link o, which is inside ROOT and leads to /wx/s,
\* was rejected with Escape.
C2_Witness ==
    /\ IsCall(last)
    /\ last.path = <<"o">>
    /\ IsLink(fs, ROOT \o << <<"o">> >>)
    /\ ~Inside(Canonical(last.path))
    /\ last.err = "Escape"

\* The Pattern Set a load returns in the state the call left.
LoadedPatterns == _load_allow_patterns(fs, Cache).ret

\* C3: every file write_text has created or overwritten has a root-relative
\* path matched by the Pattern Set loaded at the time of the write.
C3_WritesWhitelistedOnly ==
    (last.op = "write" /\ last.err = "ok")
        => _matches_patterns(last.rel, LoadedPatterns)

\* C4: with no control file under ROOT every read_text and write_text fails
\* and list_files returns the empty sequence.
C4_NoControlFileNoAccess ==
    ~Exists(fs, ALLOW_FILE)
        => /\ last.op \in {"read", "write"} => last.err # "ok"
           /\ (last.op = "list" /\ last.err = "ok") => last.out = <<>>

\* The request names the control file's own root-relative path.
IsControlFile(path) == ~IsAbsolute(path) /\ Canonical(path) = ALLOW_FILE

\* C5: a write_text to the control file's own relative path is rejected with
\* ReadOnlyConfig, in the error state as well; the control file, when it
\* exists and its bytes can be read, is served by read_text and is in what
\* list_files returns for the root.
C5_ControlFileReadOnly ==
    /\ (last.op = "write" /\ IsControlFile(last.path)) => last.err = "ReadOnlyConfig"
    /\ (last.op = "read" /\ IsControlFile(last.path) /\ Exists(fs, ALLOW_FILE)
          /\ fs[ALLOW_FILE].fault # "read") => last.err = "ok"
    /\ (last.op = "list" /\ last.path = <<".">> /\ Exists(fs, ALLOW_FILE))
          => (last.err = "ok" /\ \E i \in 1..Len(last.out) : last.out[i] = ALLOW_NAME)

\* The control file is there and reading it fails.
Broken == Exists(fs, ALLOW_FILE) /\ ReadFault(fs[ALLOW_FILE]) # "none"

\* C6: when the load a decision makes finds a control file that cannot be
\* read or decoded, the decision fails with ConfigError, for list, read and
\* write; the cached patterns allow nothing.
C6_BrokenControlFileFailsClosed ==
    (IsCall(last) /\ last.loaded /\ Broken)
        => (last.decision = "ConfigError" /\ last.err = "ConfigError")

\* A write to the file a failed with ConfigError while the cache held a
\* pattern that matches a.
C6_Witness ==
    /\ last.op = "write"
    /\ last.path = <<"a">>
    /\ last.loaded
    /\ last.read
    /\ Broken
    /\ _matches_patterns(<<"a">>, _allow_patterns)
    /\ last.err = "ConfigError"

\* C7: every path list_files returns is accepted by _safe_rel in the state
\* the call left.
C7_ListedAreAccepted ==
    (last.op = "list" /\ last.err = "ok")
        => \A i \in 1..Len(last.out) : _safe_rel(last.out[i], fs, Cache).err = "ok"

\* C8: an absolute request fails with InvalidPath, and _safe_rel has made no
\* file system call and no load by then.
C8_AbsoluteRejectedFirst ==
    (Decided(last) /\ IsAbsolute(last.path))
        => /\ last.decision = "InvalidPath"
           /\ last.err = "InvalidPath"
           /\ last.ops = <<>>
           /\ last.loads = 0
           /\ ~last.read

\* A write to /w/a, the absolute name of a file under ROOT, was rejected
\* with InvalidPath.
C8_Witness ==
    /\ last.op = "write"
    /\ last.path = <<"/", "w", "/", "a">>
    /\ is_file(fs, JoinRoot(PathOf(last.path)))
    /\ last.err = "InvalidPath"

\* The call this step makes, when it calls _load_allow_patterns.
Loads(r) == IsCall(r) /\ r.loads > 0

\* The first call after an edit that left content that can be read returns
\* the patterns parsed from that content.
FreshAfterEdit ==
    (last.op = "edit" /\ Loads(last') /\ ~Broken')
        => last'.allow = ParseLines(fs'[ALLOW_FILE].text) \o <<ALLOW_NAME>>

\* C9 as the specification has it: the first call after an edit uses the
\* new content, and a call that follows a call, the control file untouched
\* in between, never reads the control file.
C9_UnchangedNeverReread ==
    [][/\ FreshAfterEdit
       /\ (Loads(last) /\ Loads(last')) => ~last'.read]_vars

\* C9: the first call after an edit that left content that can be read
\* uses the patterns parsed from the new content; a call that follows a call
\* which left no load error, the control file untouched in between, never
\* reads the control file.
C9_FreshAndCached ==
    [][/\ FreshAfterEdit
       /\ (Loads(last) /\ last.error = None /\ Loads(last')) => ~last'.read]_vars

\* A call has read the control file that an edit left at time 2 and got the
\* patterns parsed from it.
C9_Witness ==
    /\ Loads(last)
    /\ last.read
    /\ Exists(fs, ALLOW_FILE)
    /\ fs[ALLOW_FILE].mtime = 2
    /\ _allow_file_mtime = 2
    /\ last.allow = ParseLines(fs[ALLOW_FILE].text) \o <<ALLOW_NAME>>

\* C10: under every interleaving of the callers, the pattern list a caller
\* reads comes from the load that recorded the modification time the caller
\* has read with it.
C10_NoTornCache == \A t \in DOMAIN loc : ~loc[t].torn

\* list_files(".") was called in the workspace of the scenario, which no
\* edit and no write has changed.
ScenarioListed == last.op = "list" /\ last.path = <<".">> /\ fs = Scenario

\* C11 as the specification has it: in the scenario list_files(".") returns
\* exactly README.md and docs/guide.md.
C11_ScenarioListsTwo ==
    ScenarioListed
        => (last.err = "ok" /\ last.out = <<README, DOCS \o <<"/">> \o GUIDE>>)

\* C11: in the scenario list_files(".") returns exactly .mcp-allow,
\* README.md and docs/guide.md, in this order; .env is not returned.
C11_ScenarioListing ==
    ScenarioListed
        => (last.err = "ok"
            /\ last.out = <<ALLOW_NAME, README, DOCS \o <<"/">> \o GUIDE>>)

\* list_files(".") has returned three paths in the scenario, the control
\* file first.
C11_Witness ==
    /\ ScenarioListed
    /\ last.read
    /\ Len(last.out) = 3
    /\ last.out[1] = ALLOW_NAME

\* The pattern has the recursive marker.
IsRecursive(pattern) == Contains(pattern, <<"*", "*">>)

\* The number of segments of a path or of a pattern.
Segments(s) == Len(Split(s, "/"))

\* C12: a pattern without ** never matches a path that has more segments
\* than the pattern: its * and ? do not match a "/".
C12_StarStaysInSegment ==
    (last.op = "match" /\ ~IsRecursive(last.allow[1]) /\ last.out = TRUE)
        => Segments(last.path) <= Segments(last.allow[1])

\* The prefix of a recursive pattern: ** removed, the "/" at the end stripped.
PrefixOf(pattern) == RStrip(Replace(pattern, <<"*", "*">>), "/")

\* C13: a recursive pattern with the non-empty prefix P matches a path if
\* and only if the path starts with P and "/" and something follows; a
\* recursive pattern with an empty prefix matches every path.
C13_RecursivePrefix ==
    (last.op = "match" /\ IsRecursive(last.allow[1]))
        => IF PrefixOf(last.allow[1]) = <<>>
           THEN last.out = TRUE
           ELSE last.out =
                    (/\ StartsWith(last.path, PrefixOf(last.allow[1]) \o <<"/">>)
                     /\ Len(last.path) > Len(PrefixOf(last.allow[1])) + 1)

\* a/** has matched a/a/a.
C13_Witness ==
    /\ last.op = "match"
    /\ last.allow = << <<"a", "/", "*", "*">> >>
    /\ last.path = <<"a", "/", "a", "/", "a">>
    /\ last.out = TRUE

\* C14: a call of the store that finds no control file returns the empty
\* list and reports no error, whatever happened before, and the decision
\* that made it fails with NotWhitelisted.
C14_AbsentIsNotAnError ==
    (Loads(last) /\ ~Exists(fs, ALLOW_FILE))
        => /\ last.allow = <<>>
           /\ last.error = None
           /\ last.loaded => last.decision = "NotWhitelisted"

\* The call of this step has read the control file and the read failed.
FailedLoad == Loads(last') /\ last'.read /\ Broken'

\* The call of this step has read the control file and the read succeeded.
GoodLoad == Loads(last') /\ last'.read /\ ~Broken'

\* C15: a load that fails leaves the cached list and the recorded mtime as
\* they were, returns the cached list and records the error; a recorded
\* error is cleared by a load that succeeds and by nothing else.
C15_FailedLoadKeepsCache ==
    [][/\ FailedLoad => /\ _allow_patterns' = _allow_patterns
                        /\ _allow_file_mtime' = _allow_file_mtime
                        /\ last'.allow = _allow_patterns
                        /\ _last_error' # None
       /\ (_last_error # None /\ _last_error' = None) => GoodLoad
       /\ GoodLoad => _last_error' = None]_vars

\* A load of the control file edited at time 2 has failed; the list loaded
\* at time 1 is still cached and was returned.
C15_Witness ==
    /\ Loads(last)
    /\ last.read
    /\ Broken
    /\ fs[ALLOW_FILE].mtime = 2
    /\ _last_error # None
    /\ _allow_patterns # <<>>
    /\ _allow_file_mtime = 1
    /\ last.allow = _allow_patterns

\* C16: under every interleaving, a decision whose own load failed ends with
\* ConfigError, and a decision whose own load succeeded does not end with
\* ConfigError.
C16_DecisionOnOwnLoad ==
    \A t \in DOMAIN loc :
        loc[t].outcome # "none"
            => /\ loc[t].own = "failed" => loc[t].outcome = "ConfigError"
               /\ loc[t].own = "ok" => loc[t].outcome # "ConfigError"

\* What _safe_rel answers to the request in the state the call left.
DecisionNow(path) == _safe_rel(path, fs, Cache).err

\* C17: read_text serves the file the requested path resolves to under
\* ROOT and nothing else, with that file's content; a request _safe_rel
\* rejects is rejected with the same reason, the control file's own
\* root-relative path excepted.
C17_ReadServesRequestedPath ==
    /\ (last.op = "read" /\ last.err = "ok")
           => /\ ~IsAbsolute(last.path)
              /\ last.resolved = Canonical(last.path)
              /\ fs[last.resolved].fault = "none" => last.out = fs[last.resolved].text
    /\ (last.op = "read" /\ ~IsControlFile(last.path) /\ DecisionNow(last.path) # "ok")
           => last.err = DecisionNow(last.path)

\* The segments of a secret: the last one is .env, or one before the last
\* is .git or .venv.
IsSecret(segs) ==
    /\ segs # <<>>
    /\ \/ segs[Len(segs)] = <<".", "e", "n", "v">>
       \/ \E i \in 1..(Len(segs) - 1) :
              segs[i] \in {<<".", "g", "i", "t">>, <<".", "v", "e", "n", "v">>}

\* C18: a request whose canonical form under ROOT is a secret at any depth
\* fails with Denied, for every allow list, and list_files returns no path
\* that names a secret.
C18_DenyAtAnyDepth ==
    /\ (Decided(last) /\ ~IsAbsolute(last.path) /\ Inside(Canonical(last.path))
          /\ IsSecret(Drop(Canonical(last.path), Len(ROOT))))
           => last.decision = "Denied"
    /\ (last.op = "list" /\ last.err = "ok")
           => \A i \in 1..Len(last.out) : ~IsSecret(PathOf(last.out[i]).parts)

\* The control file is the same before and after the step.
ControlFileUntouched ==
    /\ Exists(fs', ALLOW_FILE) = Exists(fs, ALLOW_FILE)
    /\ Exists(fs, ALLOW_FILE) => fs'[ALLOW_FILE] = fs[ALLOW_FILE]

\* C19: a write_text that is rejected leaves the file system as it was; the
\* file system changes only by a write that passed every check (the
\* decision, the read-only test, and create or an existing target), and no
\* write changes the control file.
C19_RejectedWriteChangesNothing ==
    [][last'.op = "write"
          => /\ last'.err # "ok" => fs' = fs
             /\ fs' # fs => /\ last'.decision = "ok"
                            /\ last'.err = "ok"
                            /\ NameOf(last'.resolved) # ALLOW_NAME
                            /\ last'.arg = 1 \/ Exists(fs, last'.resolved)
             /\ ControlFileUntouched]_vars

\* write_text("e/n", create=False) was rejected, the file is missing, and
\* the directory e has not been created.
C19_Witness ==
    /\ last.op = "write"
    /\ last.path = <<"e", "/", "n">>
    /\ last.arg = 0
    /\ last.err = "NotFound"
    /\ ~Exists(fs, ROOT \o << <<"e">> >>)

====
